---- MODULE Spec2Model ----
(***************************************************************************)
(* Model of the solar panel configuration optimizer (src/main.py).         *)
(*                                                                         *)
(* The pure functions group_panels, series_panels, parallel_panels and     *)
(* evaluate are operators.  optimize is a state machine: one step per      *)
(* iteration of its nested (group_size, method) loop, then one return      *)
(* step.  The arguments and results of the latest evaluate call are kept   *)
(* in the state so that properties of the pure functions are state         *)
(* predicates.                                                             *)
(***************************************************************************)
EXTENDS Integers, Sequences, FiniteSets, TLC

VARIABLES
    panels,        \* optimize: the panel list
    max_voltage,   \* optimize: voltage cap
    max_current,   \* optimize: current cap
    max_power,     \* optimize: nominal power target
    pc,            \* "loop" | "done" | "raised"
    group_size,    \* optimize: outer loop variable
    method,        \* optimize: inner loop variable
    best_config,   \* optimize: best Output so far, or None
    best_power,    \* optimize: power of the best Output so far
    best_method,   \* optimize: method of the best Output so far
    chunk_size,    \* evaluate: chunk_size argument of the latest call
    groups,        \* evaluate: groups built by the latest call
    merged,        \* evaluate: `series` / `parallels` of the latest call
    output,        \* optimize: Output of the latest evaluate call, or None
    calls,         \* number of evaluate calls made so far
    result         \* return value of optimize (None until/unless Optimized)

vars == <<panels, max_voltage, max_current, max_power, pc, group_size, method,
          best_config, best_power, best_method, chunk_size, groups, merged,
          output, calls, result>>

----------------------------------------------------------------------------
(* Bounds of the explored input space.                                     *)

MaxPanels == 4        \* longest heterogeneous panel list
MaxNonNegPanels == 3  \* longest panel list with zero values admitted
MaxTotalPanels == 6   \* largest panel count of a homogeneous list
MaxVolt == 2          \* larger of the two small panel voltages
MaxAmp == 2           \* larger of the two small panel currents
MaxVoltLimit == 3     \* largest small max_voltage
MaxAmpLimit == 2      \* largest small max_current

(* Defaults and least value of the input form.                             *)
MinMaxPower == 1
DefaultMaxVoltage == 50
DefaultMaxCurrent == 30
DefaultMaxPower == 500
DefaultPanelVoltage == 18
DefaultPanelCurrent == 8
DefaultTotalPanels == 6

----------------------------------------------------------------------------
(* Data model.                                                             *)

None == [none |-> TRUE]

Panel(v, i) == [voltage |-> v, current |-> i]

total_power(p) == p.voltage * p.current

Methods == <<"series_first", "parallel_first">>

Min(a, b) == IF a <= b THEN a ELSE b

RECURSIVE SumVoltage(_)
SumVoltage(ps) ==
    IF ps = <<>> THEN 0 ELSE ps[1].voltage + SumVoltage(Tail(ps))

RECURSIVE SumCurrent(_)
SumCurrent(ps) ==
    IF ps = <<>> THEN 0 ELSE ps[1].current + SumCurrent(Tail(ps))

(* len(range(0, n, step)) for step > 0.                                    *)
RangeLen(n, step) == (n + step - 1) \div step

(* group_panels: slices panels[i : i + chunk_size]; a slice past the end   *)
(* of the list is clamped to the end.                                      *)
GroupPanelsFullOnly(ps, c) ==
    [k \in 1..(Len(ps) \div c) |->
        SubSeq(ps, (k - 1) * c + 1, Min(k * c, Len(ps)))]

GroupPanels(ps, c) ==
    [k \in 1..RangeLen(Len(ps), c) |->
        SubSeq(ps, (k - 1) * c + 1, Min(k * c, Len(ps)))]

SeriesPanelsSumCurrent(ps) == Panel(SumVoltage(ps), SumCurrent(ps))

SeriesPanels(ps) == Panel(SumVoltage(ps), ps[1].current)

ParallelPanelsSumVoltage(ps) == Panel(SumVoltage(ps), SumCurrent(ps))

ParallelPanels(ps) == Panel(ps[1].voltage, SumCurrent(ps))

(* The list `series` (series_first) or `parallels` (parallel_first).       *)
FirstLevel(gs, m) ==
    IF m = "series_first"
    THEN [k \in DOMAIN gs |-> SeriesPanels(gs[k])]
    ELSE [k \in DOMAIN gs |-> ParallelPanels(gs[k])]

MakeOutput(res, ns, np, m) ==
    [voltage |-> res.voltage, current |-> res.current,
     num_series |-> ns, num_parallel |-> np, method |-> m]

EvaluateChunkBoth(ps, c, m) ==
    LET first == FirstLevel(GroupPanels(ps, c), m)
    IN  IF m = "series_first"
        THEN MakeOutput(ParallelPanels(first), c, Len(first), m)
        ELSE MakeOutput(SeriesPanels(first), c, c, m)

Evaluate(ps, c, m) ==
    LET first == FirstLevel(GroupPanels(ps, c), m)
    IN  IF m = "series_first"
        THEN MakeOutput(ParallelPanels(first), c, Len(first), m)
        ELSE MakeOutput(SeriesPanels(first), Len(first), c, m)

(* The calls that raise: range() with step 0, and panels[0] of an empty    *)
(* list in a merge operator (an empty group, or no group at all).          *)
Raises(ps, c) ==
    \/ c = 0
    \/ c < 0
    \/ GroupPanels(ps, c) = <<>>
    \/ \E k \in DOMAIN GroupPanels(ps, c) : GroupPanels(ps, c)[k] = <<>>

----------------------------------------------------------------------------
(* optimize.                                                               *)

FirstGroupSizeZero == 0

FirstGroupSize == 1

FeasibleVoltageOnly(out, mv, mc) == out.voltage <= mv

Feasible(out, mv, mc) == out.voltage <= mv /\ out.current <= mc

BetterOrEqual(p, best) == p >= best

Better(p, best) == p > best

BestInit == [best_config |-> None, best_power |-> 0, best_method |-> ""]

(* Body of the inner loop, on the three best-so-far locals.                *)
LoopBody(acc, out, m, mv, mc) ==
    IF Feasible(out, mv, mc) /\ Better(total_power(out), acc.best_power)
    THEN [best_config |-> out, best_power |-> total_power(out),
          best_method |-> m]
    ELSE acc

LossPowerClamped(mp, cfg) ==
    IF mp - total_power(cfg) < 0 THEN 0 ELSE mp - total_power(cfg)

LossPower(mp, cfg) == mp - total_power(cfg)

Optimized(cfg, m, mp) ==
    [voltage |-> cfg.voltage, current |-> cfg.current,
     num_series |-> cfg.num_series, num_parallel |-> cfg.num_parallel,
     method |-> m, loss_power |-> LossPower(mp, cfg)]

ReturnValue(acc, mp) ==
    IF acc.best_config = None
    THEN None
    ELSE Optimized(acc.best_config, acc.best_method, mp)

(* The k-th candidate of the enumeration: group_size ascending, and        *)
(* series_first before parallel_first within one group_size.               *)
CandidateChunk(k) == (k + 1) \div 2
CandidateMethod(k) == IF k % 2 = 1 THEN Methods[1] ELSE Methods[2]
Candidate(ps, k) == Evaluate(ps, CandidateChunk(k), CandidateMethod(k))

RECURSIVE Search(_, _, _, _)
Search(ps, mv, mc, k) ==
    IF k = 0
    THEN BestInit
    ELSE LoopBody(Search(ps, mv, mc, k - 1), Candidate(ps, k),
                  CandidateMethod(k), mv, mc)

(* optimize as a function of its four arguments.                           *)
OptimizeFn(ps, mv, mc, mp) == ReturnValue(Search(ps, mv, mc, 2 * Len(ps)), mp)

----------------------------------------------------------------------------
(* Inputs.                                                                 *)

VoltageLimits == (1..MaxVoltLimit) \cup {DefaultMaxVoltage}
CurrentLimits == (1..MaxAmpLimit) \cup {DefaultMaxCurrent}
PowerLimits == {MinMaxPower, DefaultMaxPower}

SeqsUpTo(S, n) == UNION {[1..k -> S] : k \in 1..n}

PositivePanels == {Panel(v, i) : v \in {1, MaxVolt}, i \in {1, MaxAmp}}
NonNegPanels == {Panel(v, i) : v \in 0..MaxVolt, i \in 0..MaxAmp}

PanelVoltages == (1..MaxVolt) \cup {DefaultPanelVoltage}
PanelCurrents == (1..MaxAmp) \cup {DefaultPanelCurrent}

(* Entry of optimize: the locals before the loop.                          *)
Entry ==
    /\ max_voltage \in VoltageLimits
    /\ max_current \in CurrentLimits
    /\ max_power \in PowerLimits
    /\ pc = "loop"
    /\ group_size = FirstGroupSize
    /\ method = Methods[1]
    /\ best_config = BestInit.best_config
    /\ best_power = BestInit.best_power
    /\ best_method = BestInit.best_method
    /\ chunk_size = 0
    /\ groups = <<>>
    /\ merged = <<>>
    /\ output = None
    /\ calls = 0
    /\ result = None

(* optimize called on any non-empty list of panels with positive voltage   *)
(* and current.                                                            *)
Init ==
    /\ panels \in SeqsUpTo(PositivePanels, MaxPanels)
    /\ Entry

(* The same with zero voltages and currents admitted.                      *)
InitNonNeg ==
    /\ panels \in SeqsUpTo(NonNegPanels, MaxNonNegPanels)
    /\ Entry

(* optimize called from the form: total_panels copies of one panel.        *)
InitForm ==
    /\ \E panel_voltage \in PanelVoltages, panel_current \in PanelCurrents,
          total_panels \in 1..MaxTotalPanels :
          panels = [k \in 1..total_panels |->
                        Panel(panel_voltage, panel_current)]
    /\ Entry

(* One iteration of the inner loop: evaluate, filter, compare, advance.    *)
Iterate ==
    /\ pc = "loop"
    /\ group_size <= Len(panels)
    /\ IF Raises(panels, group_size)
       THEN /\ pc' = "raised"
            /\ UNCHANGED <<group_size, method, best_config, best_power,
                           best_method, chunk_size, groups, merged, output,
                           calls>>
       ELSE LET out == Evaluate(panels, group_size, method)
                acc == LoopBody([best_config |-> best_config,
                                 best_power |-> best_power,
                                 best_method |-> best_method],
                                out, method, max_voltage, max_current)
            IN  /\ chunk_size' = group_size
                /\ groups' = GroupPanels(panels, group_size)
                /\ merged' = FirstLevel(GroupPanels(panels, group_size), method)
                /\ output' = out
                /\ calls' = calls + 1
                /\ best_config' = acc.best_config
                /\ best_power' = acc.best_power
                /\ best_method' = acc.best_method
                /\ IF method = Methods[1]
                   THEN method' = Methods[2] /\ group_size' = group_size
                   ELSE method' = Methods[1] /\ group_size' = group_size + 1
                /\ pc' = "loop"
    /\ UNCHANGED <<panels, max_voltage, max_current, max_power, result>>

(* The loop is over and no candidate was kept.                             *)
ReturnNone ==
    /\ pc = "loop"
    /\ group_size > Len(panels)
    /\ best_config = None
    /\ result' = None
    /\ pc' = "done"
    /\ UNCHANGED <<panels, max_voltage, max_current, max_power, group_size,
                   method, best_config, best_power, best_method, chunk_size,
                   groups, merged, output, calls>>

(* The loop is over and the best candidate is returned.                    *)
ReturnOptimized ==
    /\ pc = "loop"
    /\ group_size > Len(panels)
    /\ best_config # None
    /\ result' = Optimized(best_config, best_method, max_power)
    /\ pc' = "done"
    /\ UNCHANGED <<panels, max_voltage, max_current, max_power, group_size,
                   method, best_config, best_power, best_method, chunk_size,
                   groups, merged, output, calls>>

Next == Iterate \/ ReturnNone \/ ReturnOptimized

Spec == Init /\ [][Next]_vars

SpecNonNeg == InitNonNeg /\ [][Next]_vars

SpecForm == InitForm /\ [][Next]_vars

----------------------------------------------------------------------------
(* Vocabulary of the properties.                                           *)

N == Len(panels)

Done == pc = "done"

Returned == pc = "done" /\ result # None

CandidateIndexes == 1..(2 * N)

(* Feasibility as the specification words it.                              *)
WithinCaps(out) == out.voltage <= max_voltage /\ out.current <= max_current

SameOutput(r, o) ==
    /\ r.voltage = o.voltage
    /\ r.current = o.current
    /\ r.num_series = o.num_series
    /\ r.num_parallel = o.num_parallel
    /\ r.method = o.method

(* The indexes of the feasible candidates that no feasible candidate beats *)
(* in power.                                                               *)
MaximalIndexes ==
    LET cands == [k \in CandidateIndexes |-> Candidate(panels, k)]
        feasible == {k \in CandidateIndexes : WithinCaps(cands[k])}
    IN  {k \in feasible :
            \A j \in feasible :
                total_power(cands[j]) <= total_power(cands[k])}

RECURSIVE Flatten(_)
Flatten(gs) == IF gs = <<>> THEN <<>> ELSE gs[1] \o Flatten(Tail(gs))

Evaluated == output # None

----------------------------------------------------------------------------
(* C1: whenever optimize returns an Optimized record for a non-empty list  *)
(* of positive panels, the record is the Output of evaluate for some chunk *)
(* size in 1..len(panels) and some method, it respects both caps, and no   *)
(* candidate that respects both caps has more power.                       *)
C1_OptimalFeasible ==
    Returned =>
        /\ \E c \in 1..N, m \in {Methods[1], Methods[2]} :
              SameOutput(result, Evaluate(panels, c, m))
        /\ result.voltage <= max_voltage
        /\ result.current <= max_current
        /\ \A c \in 1..N, m \in {Methods[1], Methods[2]} :
              WithinCaps(Evaluate(panels, c, m)) =>
                  total_power(result) >= total_power(Evaluate(panels, c, m))

(* A record is returned although some candidate breaks a cap, and some     *)
(* other feasible candidate has less power.                                *)
C1_Witness ==
    /\ Returned
    /\ \E k \in CandidateIndexes : ~WithinCaps(Candidate(panels, k))
    /\ \E k \in CandidateIndexes :
          /\ WithinCaps(Candidate(panels, k))
          /\ total_power(Candidate(panels, k)) < total_power(result)

(* C2: for panels with non-negative voltage and current, optimize returns  *)
(* None exactly when no candidate respects both caps.                      *)
C2_NoneIffInfeasible ==
    Done =>
        ((result = None) <=>
            ~\E k \in CandidateIndexes : WithinCaps(Candidate(panels, k)))

C4_MaxPowerOnlyLoss ==
    Done =>
        /\ \A mp \in PowerLimits :
              LET other == OptimizeFn(panels, max_voltage, max_current, mp)
              IN  /\ (other = None) <=> (result = None)
                  /\ result # None =>
                        /\ SameOutput(other, result)
                        /\ other.loss_power =
                              mp - other.voltage * other.current
        /\ result # None =>
              /\ result.loss_power =
                    max_power - result.voltage * result.current
              /\ result.voltage * result.current > max_power =>
                    result.loss_power < 0

(* The achieved power exceeds max_power, and falls short of another one.   *)
C4_Witness ==
    /\ Returned
    /\ result.loss_power < 0
    /\ \E mp \in PowerLimits : mp > result.voltage * result.current

(* C5: 6 panels of (18 V, 8 A) under (50 V, 30 A, 500 W) give series_first *)
(* with 2 in series and 3 in parallel: 36 V, 24 A, 864 W, loss -364 W.     *)
C5_Example ==
    (/\ Done
     /\ panels = [k \in 1..6 |-> Panel(18, 8)]
     /\ max_voltage = 50
     /\ max_current = 30
     /\ max_power = 500) =>
        /\ result = [voltage |-> 36, current |-> 24, num_series |-> 2,
                     num_parallel |-> 3, method |-> "series_first",
                     loss_power |-> -364]
        /\ total_power(result) = 864

C5_Witness ==
    /\ Done
    /\ panels = [k \in 1..DefaultTotalPanels |->
                    Panel(DefaultPanelVoltage, DefaultPanelCurrent)]
    /\ max_voltage = DefaultMaxVoltage
    /\ max_current = DefaultMaxCurrent
    /\ max_power = DefaultMaxPower

(* Steps optimize still has to take: the iterations left and the return.   *)
Remaining ==
    IF pc # "loop"
    THEN 0
    ELSE 1 + 2 * (N + 1 - group_size) - (IF method = Methods[1] THEN 0 ELSE 1)

(* C6: a run of optimize on N panels makes exactly 2 * N evaluate calls and *)
(* then finishes; every chunk size is in 1..N, every group is non-empty    *)
(* and every merge receives a non-empty list, so nothing raises.  The run  *)
(* finishes because every step lowers the number of remaining steps and    *)
(* the return is enabled once the loop is over.                            *)
C6_Total ==
    /\ [](/\ pc # "raised"
          /\ calls <= 2 * N
          /\ Done => calls = 2 * N
          /\ pc = "loop" => Remaining >= 1
          /\ (pc = "loop" /\ group_size > N) =>
                ENABLED (ReturnNone \/ ReturnOptimized)
          /\ Evaluated =>
                /\ chunk_size \in 1..N
                /\ groups # <<>>
                /\ \A k \in DOMAIN groups : groups[k] # <<>>
                /\ merged # <<>>
                /\ Len(merged) = Len(groups))
    /\ [][/\ Remaining' < Remaining
          /\ calls' = calls + 1 \/ (Done' /\ calls' = calls)]_vars

(* A finished run over a list with a ragged chunking (3 does not divide 4) *)
C6_Witness == Done /\ N >= 4 /\ calls = 2 * N

(* The chunk size of the winning candidate, read back from the record.     *)
WinningChunk(r) ==
    IF r.method = "series_first" THEN r.num_series ELSE r.num_parallel

(* C7: when chunk_size divides N, num_series * num_parallel = N:           *)
(* series_first reports (chunk_size, N / chunk_size), parallel_first       *)
(* reports (N / chunk_size, chunk_size); so does a returned record whose   *)
(* winning chunk size divides N.                                           *)
C7_ProductIsN ==
    /\ (Evaluated /\ N % chunk_size = 0) =>
          /\ output.num_series * output.num_parallel = N
          /\ Len(groups) = N \div chunk_size
          /\ output.method = "series_first" =>
                /\ output.num_series = chunk_size
                /\ output.num_parallel = Len(groups)
          /\ output.method = "parallel_first" =>
                /\ output.num_series = Len(groups)
                /\ output.num_parallel = chunk_size
    /\ (Returned /\ N % WinningChunk(result) = 0) =>
          result.num_series * result.num_parallel = N

(* parallel_first with a proper divisor of N, and a record returned whose  *)
(* winning chunk is a proper divisor too.                                  *)
C7_Witness ==
    /\ Returned
    /\ WinningChunk(result) \in 2..(N - 1)
    /\ N % WinningChunk(result) = 0
    /\ result.method = "parallel_first"

(* C8: group_panels(P, c) for c in 1..len(P) yields consecutive groups     *)
(* whose concatenation is P; all groups but the last have c elements, the  *)
(* last has 1..c, none is empty, and c = len(P) gives the single group P.  *)
C8_GroupsPartition ==
    Evaluated =>
        /\ Flatten(groups) = panels
        /\ \A k \in 1..(Len(groups) - 1) : Len(groups[k]) = chunk_size
        /\ Len(groups) >= 1
        /\ Len(groups[Len(groups)]) \in 1..chunk_size
        /\ \A k \in DOMAIN groups : groups[k] # <<>>
        /\ chunk_size = N => groups = <<panels>>

(* Several full groups of distinct panels followed by a shorter one.       *)
C8_Witness ==
    /\ Evaluated
    /\ Len(groups) >= 2
    /\ Len(groups[Len(groups)]) < chunk_size
    /\ \E j, k \in DOMAIN panels : panels[j] # panels[k]

(* C9: on k identical copies of (v, i) series_panels gives (k * v, i) and  *)
(* parallel_panels gives (v, k * i); evaluate with chunk_size = N on N     *)
(* identical panels equals one series_panels call with num_parallel = 1    *)
(* (series_first), one parallel_panels call with num_series = 1            *)
(* (parallel_first).                                                       *)
C9_IdenticalMerge ==
    Evaluated =>
        LET v == panels[1].voltage
            i == panels[1].current
        IN  /\ \A g \in DOMAIN groups :
                  /\ groups[g] = [k \in 1..Len(groups[g]) |-> Panel(v, i)]
                  /\ output.method = "series_first" =>
                        merged[g] = Panel(Len(groups[g]) * v, i)
                  /\ output.method = "parallel_first" =>
                        merged[g] = Panel(v, Len(groups[g]) * i)
            /\ SeriesPanels(panels) = Panel(N * v, i)
            /\ ParallelPanels(panels) = Panel(v, N * i)
            /\ (chunk_size = N /\ output.method = "series_first") =>
                  /\ output.voltage = SeriesPanels(panels).voltage
                  /\ output.current = SeriesPanels(panels).current
                  /\ output.num_parallel = 1
            /\ (chunk_size = N /\ output.method = "parallel_first") =>
                  /\ output.voltage = ParallelPanels(panels).voltage
                  /\ output.current = ParallelPanels(panels).current
                  /\ output.num_series = 1

(* The whole list of at least three panels merged as one group.            *)
C9_Witness ==
    /\ Evaluated
    /\ N >= 3
    /\ chunk_size = N
    /\ output.method = "parallel_first"
    /\ panels[1].voltage > 1
    /\ panels[1].current > 1

(* C10: on N identical panels (v, i) no candidate has more power than      *)
(* N * v * i, and a returned record has neither more power than that nor   *)
(* num_series * num_parallel > N.                                          *)
C10_PowerConserved ==
    LET sum == N * panels[1].voltage * panels[1].current
    IN  /\ Evaluated => total_power(output) <= sum
        /\ Returned =>
              /\ total_power(result) <= sum
              /\ result.num_series * result.num_parallel <= N

====
